---- MODULE Spec2Model ----
(***************************************************************************)
(* ChemFlow (prototype-chemical-injection): the App component's state, its *)
(* event handlers and the two association rule functions, as a state       *)
(* machine.  One action per event handler of src/unnamed/part_000.         *)
(*                                                                         *)
(* React semantics the actions rest on:                                    *)
(*  - a handler runs to completion and React re-renders before the next    *)
(*    event, so the closure values a handler reads (tanks, wells,          *)
(*    associations) are the current state;                                 *)
(*  - LoginScreen, Dashboard, AssociationScreen, ... are declared INSIDE   *)
(*    App, so every render of App makes new component types and React      *)
(*    unmounts and remounts them: their useState cells (selectedWell,      *)
(*    selectedTank, selectedPump, ppm, error) are re-initialised whenever  *)
(*    a state cell of App changes.  A setState of a local cell alone       *)
(*    re-renders only that component and keeps the other local cells.      *)
(*  - Date.now() has millisecond resolution: two calls within the same     *)
(*    millisecond return the same number.                                  *)
(***************************************************************************)
EXTENDS Integers, Sequences, FiniteSets, TLC

VARIABLES
    user,             \* App: the logged-in role, or Null
    activeTab,        \* App: 'dashboard' | 'tanks' | 'wells' | 'products' | 'associate'
    products,         \* App: Product[]
    tanks,            \* App: Tank[]
    pumps,            \* App: Pump[]
    wells,            \* App: Well[]
    associations,     \* App: Association[]
    insights,         \* App: string
    loadingInsights,  \* App: boolean
    apiKey,           \* the build's process.env.API_KEY is set
    pending,          \* a call of ai.models.generateContent is in flight
    lastCall,         \* how the last call of getSystemInsights ended
    selectedWell,     \* AssociationScreen: string
    selectedTank,     \* AssociationScreen: string
    selectedPump,     \* AssociationScreen: string
    ppm,              \* AssociationScreen: number
    error,            \* AssociationScreen: string | null
    now,              \* the environment's clock, what Date.now() returns
    created           \* how many associations the run has committed so far

appVars   == <<user, activeTab>>
storeVars == <<products, tanks, pumps, wells, associations>>
advisoryVars == <<insights, loadingInsights, apiKey, pending, lastCall>>
screenVars == <<selectedWell, selectedTank, selectedPump, ppm, error>>
vars == <<user, activeTab, products, tanks, pumps, wells, associations,
          insights, loadingInsights, apiKey, pending, lastCall,
          selectedWell, selectedTank, selectedPump, ppm, error, now, created>>
envVars == <<now, created>>

----------------------------------------------------------------------------
(* Bounds of the model *)

\* a run commits at most this many new associations
MaxCreates == 3
\* the same, in the runs that create on two wells
MaxCreatesTwoWells == 2
\* the same, in the runs that fill the create form field by field
MaxCreatesForm == 1
\* the same, in the runs that watch the consumption chart
MaxCreatesConsumption == 2
\* a run registers at most this many new wells
MaxNewWells == 1
\* a run registers at most this many new products
MaxNewProducts == 1
\* a run registers at most this many new tanks
MaxNewTanks == 2
\* the clock advances at most this many milliseconds
MaxTicks == 1
\* the clock's first value (stands for a present-day epoch millisecond count)
ClockStart == 1000

----------------------------------------------------------------------------
(* Values *)

\* JavaScript null (user, error)
Null == "null"
\* what Array.prototype.find returns when nothing matches
Undefined == [undefined |-> TRUE]
\* undefined where a string is expected (tank?.chemicalType)
UndefinedType == "undefined"

InvalidSelection == "Invalid selection"
TooManyChemicals == "Maximum 3 different chemicals allowed per well."
TankNotFound == "Tank not found"
IncompatibleChemicals ==
    "Safety Interlock: Cannot run Product A and Product C simultaneously on this well."

MaxChemicals == 3
DefaultPpm == 100

MOCK_SITES == << [id |-> "S1"], [id |-> "S2"] >>

INITIAL_PRODUCTS == <<
    [id |-> "P1", name |-> "Product A"],
    [id |-> "P2", name |-> "Product B"],
    [id |-> "P3", name |-> "Product C"],
    [id |-> "P4", name |-> "Product D"],
    [id |-> "P5", name |-> "Corrosion Inhibitor"],
    [id |-> "P6", name |-> "Scale Inhibitor"] >>

INITIAL_TANKS == <<
    [id |-> "T1", siteId |-> "S1", chemicalType |-> "Product A"],
    [id |-> "T2", siteId |-> "S1", chemicalType |-> "Corrosion Inhibitor"],
    [id |-> "T3", siteId |-> "S2", chemicalType |-> "Product C"] >>

INITIAL_PUMPS == <<
    [id |-> "PM1", tankId |-> "T1"],
    [id |-> "PM2", tankId |-> "T2"],
    [id |-> "PM3", tankId |-> "T3"] >>

INITIAL_WELLS == <<
    [id |-> "W1", siteId |-> "S1", productionRate |-> 500],
    [id |-> "W2", siteId |-> "S1", productionRate |-> 1200],
    [id |-> "W3", siteId |-> "S2", productionRate |-> 800] >>

INITIAL_ASSOCS == <<
    [id |-> "A1", wellId |-> "W1", tankId |-> "T1", pumpId |-> "PM1",
     targetPpm |-> 150, status |-> "ACTIVE"],
    [id |-> "A2", wellId |-> "W2", tankId |-> "T2", pumpId |-> "PM2",
     targetPpm |-> 50, status |-> "INACTIVE"] >>

Roles == {"SALES", "FIELD_TECH"}
Tabs == {"dashboard", "tanks", "wells", "products", "associate"}

----------------------------------------------------------------------------
(* Array helpers *)

\* Array.prototype.find: the first element that passes, or undefined
Find(s, Test(_)) ==
    IF \E i \in 1..Len(s) : Test(s[i])
    THEN s[CHOOSE i \in 1..Len(s) : Test(s[i]) /\ \A j \in 1..(i-1) : ~Test(s[j])]
    ELSE Undefined

\* Array.prototype.map
Map(s, F(_)) == [i \in 1..Len(s) |-> F(s[i])]

\* Array.prototype.includes
Includes(s, x) == \E i \in 1..Len(s) : s[i] = x

\* `${prefix}${Date.now()}`
NewId(prefix) == prefix \o ToString(now)

----------------------------------------------------------------------------
(* Association Rule Engine *)

findTank(tankId) == Find(tanks, LAMBDA t : t.id = tankId)
findWell(wellId) == Find(wells, LAMBDA w : w.id = wellId)

\* validateAssociationCreation counting only the ACTIVE associations' chemicals
validateAssociationCreation_ActiveOnly(wellId, tankId, pumpId) ==
    LET targetWell == findWell(wellId)
        targetTank == findTank(tankId)
    IN  IF targetWell = Undefined \/ targetTank = Undefined \/ pumpId = ""
        THEN InvalidSelection
        ELSE LET existingAssocs ==
                     SelectSeq(associations,
                               LAMBDA a : a.wellId = wellId /\ a.status = "ACTIVE")
                 connectedTanks ==
                     SelectSeq(Map(existingAssocs, LAMBDA a : findTank(a.tankId)),
                               LAMBDA t : t # Undefined)
                 uniqueChemicals ==
                     {connectedTanks[i].chemicalType : i \in 1..Len(connectedTanks)}
                         \cup {targetTank.chemicalType}
             IN  IF Cardinality(uniqueChemicals) > MaxChemicals
                 THEN TooManyChemicals
                 ELSE Null

\* validateAssociationCreation counting the well's associations, not their
\* distinct chemical types
validateAssociationCreation_CountsAssociations(wellId, tankId, pumpId) ==
    LET targetWell == findWell(wellId)
        targetTank == findTank(tankId)
    IN  IF targetWell = Undefined \/ targetTank = Undefined \/ pumpId = ""
        THEN InvalidSelection
        ELSE LET existingAssocs == SelectSeq(associations, LAMBDA a : a.wellId = wellId)
                 connectedTanks ==
                     SelectSeq(Map(existingAssocs, LAMBDA a : findTank(a.tankId)),
                               LAMBDA t : t # Undefined)
             IN  IF Len(connectedTanks) + 1 > MaxChemicals
                 THEN TooManyChemicals
                 ELSE Null

\* validateAssociationCreation with the check that the pump is not yet assigned
validateAssociationCreation_PumpExclusive(wellId, tankId, pumpId) ==
    LET targetWell == findWell(wellId)
        targetTank == findTank(tankId)
    IN  IF targetWell = Undefined \/ targetTank = Undefined \/ pumpId = ""
        THEN InvalidSelection
        ELSE IF \E i \in 1..Len(associations) : associations[i].pumpId = pumpId
        THEN "Pump is already assigned"
        ELSE LET existingAssocs == SelectSeq(associations, LAMBDA a : a.wellId = wellId)
                 connectedTanks ==
                     SelectSeq(Map(existingAssocs, LAMBDA a : findTank(a.tankId)),
                               LAMBDA t : t # Undefined)
                 uniqueChemicals ==
                     {connectedTanks[i].chemicalType : i \in 1..Len(connectedTanks)}
                         \cup {targetTank.chemicalType}
             IN  IF Cardinality(uniqueChemicals) > MaxChemicals
                 THEN TooManyChemicals
                 ELSE Null

validateAssociationCreation(wellId, tankId, pumpId) ==
    LET targetWell == findWell(wellId)
        targetTank == findTank(tankId)
    IN  IF targetWell = Undefined \/ targetTank = Undefined \/ pumpId = ""
        THEN InvalidSelection
        ELSE LET existingAssocs == SelectSeq(associations, LAMBDA a : a.wellId = wellId)
                 connectedTanks ==
                     SelectSeq(Map(existingAssocs, LAMBDA a : findTank(a.tankId)),
                               LAMBDA t : t # Undefined)
                 uniqueChemicals ==
                     {connectedTanks[i].chemicalType : i \in 1..Len(connectedTanks)}
                         \cup {targetTank.chemicalType}
             IN  IF Cardinality(uniqueChemicals) > MaxChemicals
                 THEN TooManyChemicals
                 ELSE Null

\* tanks.find(t => t.id === a.tankId)?.chemicalType
chemicalTypeOf(tankId) ==
    LET t == findTank(tankId)
    IN  IF t = Undefined THEN UndefinedType ELSE t.chemicalType

\* validateToggleStatus going on without the tank: a missing tank has no
\* chemical type and the interlock looks at the other pumps only
validateToggleStatus_SkipsMissingTank(association) ==
    IF association.status = "ACTIVE" THEN Null
    ELSE LET wellId == association.wellId
             thisChemical == chemicalTypeOf(association.tankId)
             activeAssocs ==
                 SelectSeq(associations,
                           LAMBDA a : /\ a.wellId = wellId
                                      /\ a.status = "ACTIVE"
                                      /\ a.id # association.id)
             activeChemicals ==
                 Map(activeAssocs, LAMBDA a : chemicalTypeOf(a.tankId))
             hasA == Includes(activeChemicals, "Product A")
                         \/ thisChemical = "Product A"
             hasC == Includes(activeChemicals, "Product C")
                         \/ thisChemical = "Product C"
         IN  IF hasA /\ hasC THEN IncompatibleChemicals ELSE Null

validateToggleStatus(association) ==
    IF association.status = "ACTIVE" THEN Null
    ELSE LET wellId == association.wellId
             thisTank == findTank(association.tankId)
         IN  IF thisTank = Undefined THEN TankNotFound
             ELSE LET thisChemical == thisTank.chemicalType
                      activeAssocs ==
                          SelectSeq(associations,
                                    LAMBDA a : /\ a.wellId = wellId
                                               /\ a.status = "ACTIVE"
                                               /\ a.id # association.id)
                      activeChemicals ==
                          Map(activeAssocs, LAMBDA a : chemicalTypeOf(a.tankId))
                      hasA == Includes(activeChemicals, "Product A")
                                  \/ thisChemical = "Product A"
                      hasC == Includes(activeChemicals, "Product C")
                                  \/ thisChemical = "Product C"
                  IN  IF hasA /\ hasC THEN IncompatibleChemicals ELSE Null

----------------------------------------------------------------------------
(* Initial state: the useState initialisers *)

\* the useState initialisers; hasKey: the build was given an API_KEY
InitWith(hasKey) ==
    /\ user = Null
    /\ activeTab = "dashboard"
    /\ products = INITIAL_PRODUCTS
    /\ tanks = INITIAL_TANKS
    /\ pumps = INITIAL_PUMPS
    /\ wells = INITIAL_WELLS
    /\ associations = INITIAL_ASSOCS
    /\ insights = ""
    /\ loadingInsights = FALSE
    /\ apiKey = hasKey
    /\ pending = FALSE
    /\ lastCall = "none"
    /\ selectedWell = ""
    /\ selectedTank = ""
    /\ selectedPump = ""
    /\ ppm = DefaultPpm
    /\ error = Null
    /\ now = ClockStart
    /\ created = 0

Init == InitWith(TRUE)

\* AssociationScreen is mounted anew: its useState initialisers run again
RemountAssociationScreen ==
    /\ selectedWell' = ""
    /\ selectedTank' = ""
    /\ selectedPump' = ""
    /\ ppm' = DefaultPpm
    /\ error' = Null

\* <AssociationScreen /> is rendered
AssociationScreenMounted == user # Null /\ activeTab = "associate"

----------------------------------------------------------------------------
(* Session and navigation *)

Login(role) ==
    /\ user = Null
    /\ user' = role
    /\ RemountAssociationScreen
    /\ UNCHANGED <<activeTab, storeVars, advisoryVars, envVars>>

Logout ==
    /\ user # Null
    /\ user' = Null
    /\ RemountAssociationScreen
    /\ UNCHANGED <<activeTab, storeVars, advisoryVars, envVars>>

SetActiveTab(tab) ==
    /\ user # Null
    /\ tab \in {"products", "tanks", "wells"} => user = "SALES"
    /\ tab # activeTab
    /\ activeTab' = tab
    /\ RemountAssociationScreen
    /\ UNCHANGED <<user, storeVars, advisoryVars, envVars>>

----------------------------------------------------------------------------
(* AssociationScreen: the create form *)

SelectWell(w) ==
    /\ AssociationScreenMounted
    /\ w = "" \/ \E i \in 1..Len(wells) : wells[i].id = w
    /\ selectedWell' = w
    /\ UNCHANGED <<appVars, storeVars, advisoryVars, selectedTank, selectedPump,
                   ppm, error, envVars>>

\* tankOptions without the same-site filter
tankOptions_AllTanks == tanks

\* the tanks offered by the Select Tank list
tankOptions ==
    SelectSeq(tanks, LAMBDA t :
        IF selectedWell = "" THEN TRUE
        ELSE LET well == findWell(selectedWell)
             IN  well # Undefined /\ t.siteId = well.siteId)

SelectTank(t) ==
    /\ AssociationScreenMounted
    /\ t = "" \/ \E i \in 1..Len(tankOptions) : tankOptions[i].id = t
    /\ selectedTank' = t
    /\ selectedPump' = ""
    /\ UNCHANGED <<appVars, storeVars, advisoryVars, selectedWell, ppm, error, envVars>>

availablePumps == SelectSeq(pumps, LAMBDA p : p.tankId = selectedTank)

SelectPump(p) ==
    /\ AssociationScreenMounted
    /\ selectedTank # ""
    /\ p = "" \/ \E i \in 1..Len(availablePumps) : availablePumps[i].id = p
    /\ selectedPump' = p
    /\ UNCHANGED <<appVars, storeVars, advisoryVars, selectedWell, selectedTank,
                   ppm, error, envVars>>

\* newAssoc with the pump started at once
newAssoc_StartsActive(w, t, p) ==
    [id |-> NewId("A"),
     wellId |-> w,
     tankId |-> t,
     pumpId |-> p,
     targetPpm |-> ppm,
     status |-> "ACTIVE"]

\* the Association handleAssociate synthesizes
newAssoc(w, t, p) ==
    [id |-> NewId("A"),
     wellId |-> w,
     tankId |-> t,
     pumpId |-> p,
     targetPpm |-> ppm,
     status |-> "INACTIVE"]

\* the body of handleAssociate appending to the list of the first render
associate_StaleCopy(w, t, p) ==
    LET validationError == validateAssociationCreation(w, t, p)
    IN  IF validationError # Null
        THEN /\ error' = validationError
             /\ selectedWell' = w /\ selectedTank' = t /\ selectedPump' = p
             /\ UNCHANGED <<appVars, storeVars, advisoryVars, ppm, envVars>>
        ELSE /\ associations' = Append(INITIAL_ASSOCS, newAssoc(w, t, p))
             /\ created' = created + 1
             /\ RemountAssociationScreen
             /\ UNCHANGED <<appVars, products, tanks, pumps, wells,
                            advisoryVars, now>>

\* the body of handleAssociate, reading the three selections as w, t, p
associate(w, t, p) ==
    LET validationError == validateAssociationCreation(w, t, p)
    IN  IF validationError # Null
        THEN /\ error' = validationError
             /\ selectedWell' = w /\ selectedTank' = t /\ selectedPump' = p
             /\ UNCHANGED <<appVars, storeVars, advisoryVars, ppm, envVars>>
        ELSE /\ associations' = Append(associations, newAssoc(w, t, p))
             /\ created' = created + 1
             /\ RemountAssociationScreen
             /\ UNCHANGED <<appVars, products, tanks, pumps, wells,
                            advisoryVars, now>>

\* Target PPM onChange: setPpm(Number(e.target.value)); an emptied field gives 0
SetPpm(v) ==
    /\ AssociationScreenMounted
    /\ ppm' = v
    /\ UNCHANGED <<appVars, storeVars, advisoryVars, selectedWell, selectedTank,
                   selectedPump, error, envVars>>

\* FormValid without the min of the Target PPM input
FormValid_NoMin ==
    /\ \E i \in 1..Len(wells) : wells[i].id = selectedWell
    /\ \E i \in 1..Len(tankOptions) : tankOptions[i].id = selectedTank
    /\ \E i \in 1..Len(availablePumps) : availablePumps[i].id = selectedPump

\* the browser's validation of the form, without which it fires no submit
\* event: each `required` select shows an option other than its first, empty
\* one (a select whose value is none of its options shows the first), and the
\* `required` number input holds a number not below its min="1"
FormValid ==
    /\ \E i \in 1..Len(wells) : wells[i].id = selectedWell
    /\ \E i \in 1..Len(tankOptions) : tankOptions[i].id = selectedTank
    /\ \E i \in 1..Len(availablePumps) : availablePumps[i].id = selectedPump
    /\ ppm >= 1

\* the submit handler; the submit button is disabled while a selection is empty
handleAssociate ==
    /\ AssociationScreenMounted
    /\ selectedWell # "" /\ selectedTank # "" /\ selectedPump # ""
    /\ FormValid
    /\ associate(selectedWell, selectedTank, selectedPump)

\* handleAssociate in a run that commits at most maxCreates associations
submitForm(maxCreates) ==
    /\ validateAssociationCreation(selectedWell, selectedTank, selectedPump) = Null
           => created < maxCreates
    /\ handleAssociate

\* the selections the form can be submitted with.  The three selects are
\* `required`: the browser fires the form's submit event only while each shows
\* an option other than its first, empty one.  A select whose value matches none
\* of its options shows the first option, so a tank kept in selectedTank from
\* before a change of the well, and filtered out of the tank list since, blocks
\* the submit: the tank is one the list offers for the selected well, the pump
\* is mounted on the selected tank.
FormCanHold(w, t, p) ==
    /\ \E i \in 1..Len(wells) : wells[i].id = w
    /\ \E i \in 1..Len(tanks) :
           /\ tanks[i].id = t
           /\ findWell(w) # Undefined /\ tanks[i].siteId = findWell(w).siteId
    /\ \E i \in 1..Len(pumps) : pumps[i].id = p /\ pumps[i].tankId = t

\* the user fills the form (select tank, select pump, select well) and submits it;
\* the run commits at most maxCreates associations
createAssociation(w, t, p, maxCreates) ==
    /\ AssociationScreenMounted
    /\ FormCanHold(w, t, p)
    /\ validateAssociationCreation(w, t, p) = Null => created < maxCreates
    /\ associate(w, t, p)

\* handleRemoveAssoc refusing to unlink a running pump
handleRemoveAssoc_InactiveOnly(id) ==
    /\ AssociationScreenMounted
    /\ \E i \in 1..Len(associations) : associations[i].id = id
    /\ associations' = SelectSeq(associations,
                                 LAMBDA a : a.id # id \/ a.status = "ACTIVE")
    /\ RemountAssociationScreen
    /\ UNCHANGED <<appVars, products, tanks, pumps, wells, advisoryVars, envVars>>

handleRemoveAssoc(id) ==
    /\ AssociationScreenMounted
    /\ \E i \in 1..Len(associations) : associations[i].id = id
    /\ associations' = SelectSeq(associations, LAMBDA a : a.id # id)
    /\ RemountAssociationScreen
    /\ UNCHANGED <<appVars, products, tanks, pumps, wells, advisoryVars, envVars>>

\* toggleStatus without its stop branch: an ACTIVE association is left as it is
toggleStatus_NoStop(assocId) ==
    /\ AssociationScreenMounted
    /\ \E i \in 1..Len(associations) : associations[i].id = assocId
    /\ associations' =
           Map(associations, LAMBDA a :
               IF a.id = assocId
               THEN IF a.status = "INACTIVE"
                    THEN IF validateToggleStatus(a) # Null
                         THEN a
                         ELSE [a EXCEPT !.status = "ACTIVE"]
                    ELSE a
               ELSE a)
    /\ RemountAssociationScreen
    /\ UNCHANGED <<appVars, products, tanks, pumps, wells, advisoryVars, envVars>>

\* toggled building the started association anew from the form's ppm
toggled_PpmFromForm(a) ==
    IF a.status = "INACTIVE"
    THEN IF validateToggleStatus(a) # Null
         THEN a
         ELSE [a EXCEPT !.status = "ACTIVE", !.targetPpm = ppm]
    ELSE [a EXCEPT !.status = "INACTIVE"]

\* what the updater of toggleStatus makes of the association with the id
toggled(a) ==
    IF a.status = "INACTIVE"
    THEN IF validateToggleStatus(a) # Null
         THEN a
         ELSE [a EXCEPT !.status = "ACTIVE"]
    ELSE [a EXCEPT !.status = "INACTIVE"]

\* the updater of toggleStatus: prev.map(...)
statusToggled(assocId) ==
    Map(associations, LAMBDA a : IF a.id = assocId THEN toggled(a) ELSE a)

toggleStatus(assocId) ==
    /\ AssociationScreenMounted
    /\ \E i \in 1..Len(associations) : associations[i].id = assocId
    /\ associations' = statusToggled(assocId)
    /\ RemountAssociationScreen
    /\ UNCHANGED <<appVars, products, tanks, pumps, wells, advisoryVars, envVars>>

----------------------------------------------------------------------------
(* RegistrationScreens: the tank form *)

\* the product names the model's user picks in the tank form
TankFormChemicals == {"Product B", "Product C"}
\* the sites the model's user picks in the tank form
TankFormSites == {"S1"}
\* the pump names the model's user types in the tank form ("": no pump)
TankFormPumpNames == {"P-X"}
TankFormPumpNamesOrNone == {"", "P-X"}
\* the wells the model's user picks in the create form
FormWells == {"W2"}
FormWellsTwo == {"W1", "W2"}
\* the product name the model's user types in the product form, and the
\* products whose trash button the model's user clicks
ProductFormNames == {"Super Solvent X"}
DeletedProducts == {"P4", "P6"}
\* the sites and the production rates the model's user enters in the well form
WellFormSites == {"S1"}
WellFormRates == {333}
\* the target ppm the model's user types in the runs that watch the chart
ChartPpmInputs == {7}
\* the numbers the model's user leaves in the Target PPM input
PpmInputs == {-5, 0, 7}

\* handleAddTank behind the tab alone, RegistrationScreens without its role check
handleAddTank_NoRoleCheck(siteId, chemicalType, pumpName) ==
    /\ user # Null /\ activeTab = "tanks"
    /\ Len(tanks) < Len(INITIAL_TANKS) + MaxNewTanks
    /\ \E i \in 1..Len(MOCK_SITES) : MOCK_SITES[i].id = siteId
    /\ \E i \in 1..Len(products) : products[i].name = chemicalType
    /\ LET newTankId == NewId("T")
           newTank == [id |-> newTankId, siteId |-> siteId,
                       chemicalType |-> chemicalType]
       IN  /\ tanks' = Append(tanks, newTank)
           /\ pumps' = IF pumpName # ""
                       THEN Append(pumps, [id |-> NewId("PM"), tankId |-> newTankId])
                       ELSE pumps
    /\ RemountAssociationScreen
    /\ UNCHANGED <<appVars, products, wells, associations, advisoryVars, envVars>>

handleAddTank(siteId, chemicalType, pumpName) ==
    /\ user = "SALES" /\ activeTab = "tanks"
    /\ Len(tanks) < Len(INITIAL_TANKS) + MaxNewTanks
    /\ \E i \in 1..Len(MOCK_SITES) : MOCK_SITES[i].id = siteId
    /\ \E i \in 1..Len(products) : products[i].name = chemicalType
    /\ LET newTankId == NewId("T")
           newTank == [id |-> newTankId, siteId |-> siteId,
                       chemicalType |-> chemicalType]
       IN  /\ tanks' = Append(tanks, newTank)
           /\ pumps' = IF pumpName # ""
                       THEN Append(pumps, [id |-> NewId("PM"), tankId |-> newTankId])
                       ELSE pumps
    /\ RemountAssociationScreen
    /\ UNCHANGED <<appVars, products, wells, associations, advisoryVars, envVars>>

\* Register Well; wellForm.productionRate is Number(e.target.value) of a
\* `required` number input
handleAddWell(siteId, productionRate) ==
    /\ user = "SALES" /\ activeTab = "wells"
    /\ Len(wells) < Len(INITIAL_WELLS) + MaxNewWells
    /\ \E i \in 1..Len(MOCK_SITES) : MOCK_SITES[i].id = siteId
    /\ wells' = Append(wells, [id |-> NewId("W"), siteId |-> siteId,
                               productionRate |-> productionRate])
    /\ RemountAssociationScreen
    /\ UNCHANGED <<appVars, products, tanks, pumps, associations, advisoryVars,
                   envVars>>

----------------------------------------------------------------------------
(* ProductRegistrationScreen *)

\* Add Product; an empty or blank name returns early
handleAddProduct(productName) ==
    /\ user = "SALES" /\ activeTab = "products"
    /\ Len(products) < Len(INITIAL_PRODUCTS) + MaxNewProducts
    /\ productName # ""
    /\ products' = Append(products, [id |-> NewId("P"), name |-> productName])
    /\ RemountAssociationScreen
    /\ UNCHANGED <<appVars, tanks, pumps, wells, associations, advisoryVars, envVars>>

\* the trash button of a product's row, the confirm dialog answered with OK
handleDeleteProduct(id) ==
    /\ user = "SALES" /\ activeTab = "products"
    /\ \E i \in 1..Len(products) : products[i].id = id
    /\ products' = SelectSeq(products, LAMBDA p : p.id # id)
    /\ RemountAssociationScreen
    /\ UNCHANGED <<appVars, tanks, pumps, wells, associations, advisoryVars, envVars>>

----------------------------------------------------------------------------
(* Dashboard: the Estimated Daily Consumption chart *)

\* wellAssocs.reduce((acc, curr) => acc + curr.targetPpm, 0)
RECURSIVE totalPpmOf(_)
totalPpmOf(wellAssocs) ==
    IF wellAssocs = << >> THEN 0
    ELSE totalPpmOf(SubSeq(wellAssocs, 1, Len(wellAssocs) - 1))
             + wellAssocs[Len(wellAssocs)].targetPpm

\* parseFloat((n / 10000).toFixed(2)), in hundredths, for n >= 0: the nearest
\* hundredth.  (Where n / 10000 is half-way between two hundredths, toFixed goes
\* by the double nearest to the quotient; the model's rates and ppm give no such n.)
ToFixed2(n) == (n + 50) \div 100

\* consumptionData with the INACTIVE associations counted as well
consumptionData_AnyStatus ==
    Map(wells, LAMBDA w :
        LET wellAssocs == SelectSeq(associations, LAMBDA a : a.wellId = w.id)
            totalPpm == totalPpmOf(wellAssocs)
        IN  [name |-> w.id,
             consumption |-> ToFixed2(w.productionRate * totalPpm)])

\* consumptionData: per well, the chart's value in hundredths of a litre per day
consumptionData ==
    Map(wells, LAMBDA w :
        LET wellAssocs ==
                SelectSeq(associations,
                          LAMBDA a : a.wellId = w.id /\ a.status = "ACTIVE")
            totalPpm == totalPpmOf(wellAssocs)
        IN  [name |-> w.id,
             consumption |-> ToFixed2(w.productionRate * totalPpm)])

----------------------------------------------------------------------------
(* The advisory generator (services/geminiService.ts) and the AI Analysis button *)

InsightsUnavailable == "AI Insights unavailable. Please configure API_KEY."
NoInsightsGenerated == "No insights generated."
ErrorGeneratingInsights == "Error generating insights. Please try again later."

\* how a call of ai.models.generateContent can end: it throws (transport or
\* API error), or it returns a response whose text is a summary, empty or
\* undefined
ApiResponses ==
    {[threw |-> TRUE, text |-> UndefinedType],
     [threw |-> FALSE, text |-> "## Executive summary"],
     [threw |-> FALSE, text |-> ""],
     [threw |-> FALSE, text |-> UndefinedType]}

\* the kind of end a call had, for lastCall
KindOf(hasKey, response) ==
    IF ~hasKey THEN "noKey"
    ELSE IF response.threw THEN "error"
    ELSE IF response.text \in {"", UndefinedType} THEN "empty"
    ELSE "text"

\* getSystemInsights without its try/catch: the API's error reaches the caller
getSystemInsights_NoCatch(hasKey, response) ==
    IF ~hasKey
    THEN [resolved |-> TRUE, value |-> InsightsUnavailable]
    ELSE IF response.threw
    THEN [resolved |-> FALSE, value |-> UndefinedType]
    ELSE [resolved |-> TRUE,
          value |-> IF response.text \in {"", UndefinedType}
                    THEN NoInsightsGenerated
                    ELSE response.text]

\* what the promise getSystemInsights returns settles to: resolved with a text,
\* or rejected
getSystemInsights(hasKey, response) ==
    IF ~hasKey
    THEN [resolved |-> TRUE, value |-> InsightsUnavailable]
    ELSE IF response.threw
    THEN [resolved |-> TRUE, value |-> ErrorGeneratingInsights]
    ELSE [resolved |-> TRUE,
          value |-> IF response.text \in {"", UndefinedType}
                    THEN NoInsightsGenerated
                    ELSE response.text]

\* <Dashboard /> is rendered
DashboardMounted == user # Null /\ activeTab = "dashboard"

\* handleGenerateInsights after its await: the text is shown, the spinner stops;
\* a rejected promise ends the handler there
insightsSettled(response) ==
    LET text == getSystemInsights(apiKey, response)
    IN  /\ IF text.resolved
           THEN insights' = text.value /\ loadingInsights' = FALSE
           ELSE insights' = insights /\ loadingInsights' = TRUE
        /\ pending' = FALSE
        /\ lastCall' = KindOf(apiKey, response)
        /\ RemountAssociationScreen
        /\ UNCHANGED <<appVars, storeVars, apiKey, envVars>>

\* the AI Analysis button (disabled while loadingInsights): the handler sets
\* loadingInsights and yields at its await.  With an API_KEY the request is in
\* flight then; without one getSystemInsights has returned already and the
\* handler resumes in a microtask.
handleGenerateInsights ==
    /\ DashboardMounted
    /\ ~loadingInsights
    /\ loadingInsights' = TRUE
    /\ pending' = TRUE
    /\ UNCHANGED <<appVars, storeVars, insights, apiKey, lastCall,
                   screenVars, envVars>>

\* the promise settles (the request ended, or there was none to make) and
\* handleGenerateInsights resumes
InsightsResponse(response) ==
    /\ pending
    /\ insightsSettled(response)

----------------------------------------------------------------------------
(* The environment: a millisecond passes *)

Tick ==
    /\ now < ClockStart + MaxTicks
    /\ now' = now + 1
    /\ UNCHANGED <<appVars, storeVars, advisoryVars, screenVars, created>>

----------------------------------------------------------------------------

NextWith(formWells, maxCreates) ==
    \/ \E role \in Roles : Login(role)
    \/ \E tab \in {"associate", "tanks"} : SetActiveTab(tab)
    \/ \E w \in formWells, t \in {tanks[i].id : i \in 1..Len(tanks)},
          p \in {pumps[i].id : i \in 1..Len(pumps)} :
              createAssociation(w, t, p, maxCreates)
    \/ \E i \in 1..Len(associations) : handleRemoveAssoc(associations[i].id)
    \/ \E i \in 1..Len(associations) : toggleStatus(associations[i].id)
    \/ \E siteId \in TankFormSites, chemicalType \in TankFormChemicals,
          pumpName \in TankFormPumpNames : handleAddTank(siteId, chemicalType, pumpName)
    \/ Tick

\* every create is on well W2 (seeded with one INACTIVE association)
Next == NextWith(FormWells, MaxCreates)
Spec == Init /\ [][Next]_vars

\* creates on wells W1 and W2
NextTwoWells == NextWith(FormWellsTwo, MaxCreatesTwoWells)
SpecTwoWells == Init /\ [][NextTwoWells]_vars

\* creates on wells W1 and W2 from the seeded tanks and pumps alone
NextSharing ==
    \/ \E role \in Roles : Login(role)
    \/ \E tab \in {"associate", "dashboard"} : SetActiveTab(tab)
    \/ \E w \in FormWellsTwo, t \in {tanks[i].id : i \in 1..Len(tanks)},
          p \in {pumps[i].id : i \in 1..Len(pumps)} :
              createAssociation(w, t, p, MaxCreatesTwoWells)
    \/ \E i \in 1..Len(associations) : handleRemoveAssoc(associations[i].id)
    \/ \E i \in 1..Len(associations) : toggleStatus(associations[i].id)
    \/ Tick
SpecSharing == Init /\ [][NextSharing]_vars


\* the dashboard's AI Analysis with or without an API_KEY, between logins,
\* tab changes, toggles and removes
InitInsights == \E hasKey \in BOOLEAN : InitWith(hasKey)
\* the handler has yielded without a request to wait for (no API_KEY): it
\* resumes in a microtask, before any other event is handled
MicrotaskDue == pending /\ ~apiKey

NextInsights ==
    \/ ~MicrotaskDue /\ \E role \in Roles : Login(role)
    \/ ~MicrotaskDue /\ Logout
    \/ ~MicrotaskDue /\ \E tab \in {"dashboard", "associate"} : SetActiveTab(tab)
    \/ ~MicrotaskDue /\ handleGenerateInsights
    \/ \E response \in ApiResponses : InsightsResponse(response)
    \/ ~MicrotaskDue /\ \E i \in 1..Len(associations) : handleRemoveAssoc(associations[i].id)
    \/ ~MicrotaskDue /\ \E i \in 1..Len(associations) : toggleStatus(associations[i].id)
SpecInsights == InitInsights /\ [][NextInsights]_vars

\* every promise the handler awaits settles: a request that was sent ends, with
\* a response or with an error, and the handler's continuation is run
SpecInsightsFair ==
    SpecInsights /\ WF_vars(\E response \in ApiResponses : InsightsResponse(response))


\* the create form filled field by field, in any order, with any target ppm
NextForm ==
    \/ \E role \in Roles : Login(role)
    \/ \E tab \in {"associate", "dashboard"} : SetActiveTab(tab)
    \/ \E w \in {wells[i].id : i \in 1..Len(wells)} \cup {""} : SelectWell(w)
    \/ \E t \in {tanks[i].id : i \in 1..Len(tanks)} \cup {""} : SelectTank(t)
    \/ \E p \in {pumps[i].id : i \in 1..Len(pumps)} \cup {""} : SelectPump(p)
    \/ \E v \in PpmInputs : SetPpm(v)
    \/ submitForm(MaxCreatesForm)
    \/ \E i \in 1..Len(associations) : handleRemoveAssoc(associations[i].id)
    \/ \E i \in 1..Len(associations) : toggleStatus(associations[i].id)
SpecForm == Init /\ [][NextForm]_vars


\* a well of another production rate is registered, associations are created
\* with another target ppm, started, stopped and removed
NextConsumption ==
    \/ \E role \in Roles : Login(role)
    \/ \E tab \in {"associate", "wells"} : SetActiveTab(tab)
    \/ \E siteId \in WellFormSites, rate \in WellFormRates : handleAddWell(siteId, rate)
    \/ \E v \in ChartPpmInputs : SetPpm(v)
    \/ \E w \in {wells[i].id : i \in 1..Len(wells)},
          t \in {tanks[i].id : i \in 1..Len(tanks)},
          p \in {pumps[i].id : i \in 1..Len(pumps)} :
              createAssociation(w, t, p, MaxCreatesConsumption)
    \/ \E i \in 1..Len(associations) : handleRemoveAssoc(associations[i].id)
    \/ \E i \in 1..Len(associations) : toggleStatus(associations[i].id)
SpecConsumption == Init /\ [][NextConsumption]_vars


\* logins and logouts of both roles, every tab, and the three registration screens
NextRoles ==
    \/ \E role \in Roles : Login(role)
    \/ Logout
    \/ \E tab \in Tabs : SetActiveTab(tab)
    \/ \E siteId \in TankFormSites, chemicalType \in TankFormChemicals,
          pumpName \in TankFormPumpNamesOrNone :
              handleAddTank(siteId, chemicalType, pumpName)
    \/ \E siteId \in WellFormSites, rate \in WellFormRates : handleAddWell(siteId, rate)
    \/ \E productName \in ProductFormNames : handleAddProduct(productName)
    \/ \E id \in DeletedProducts : handleDeleteProduct(id)
    \/ \E i \in 1..Len(associations) : toggleStatus(associations[i].id)
SpecRoles == Init /\ [][NextRoles]_vars

----------------------------------------------------------------------------
(* Claims *)

\* the chemical types of well w's ACTIVE associations
ActiveChemicalsOf(w) ==
    {chemicalTypeOf(associations[i].tankId) :
        i \in {j \in 1..Len(associations) :
                  associations[j].wellId = w /\ associations[j].status = "ACTIVE"}}

\* no two associations of the list share an id
UniqueIds ==
    \A i, j \in 1..Len(associations) :
        associations[i].id = associations[j].id => i = j

\* C1: in every reachable state no well has an ACTIVE association on a
\* "Product A" tank and an ACTIVE association on a "Product C" tank.
C1_ACExclusivity ==
    \A k \in 1..Len(wells) :
        ~({"Product A", "Product C"} \subseteq ActiveChemicalsOf(wells[k].id))

\* the chemical types of the resolvable tanks of all of well w's associations
ChemicalsOf(w) ==
    {chemicalTypeOf(associations[i].tankId) :
        i \in {j \in 1..Len(associations) :
                  /\ associations[j].wellId = w
                  /\ findTank(associations[j].tankId) # Undefined}}

WellIds == {wells[k].id : k \in 1..Len(wells)}
TankIds == {tanks[k].id : k \in 1..Len(tanks)}
PumpIds == {pumps[k].id : k \in 1..Len(pumps)}

\* C2: in every reachable state every well has at most 3 distinct chemical
\* types over the resolvable tanks of its associations, ACTIVE or INACTIVE.
C2_DiversityCap ==
    \A w \in WellIds : Cardinality(ChemicalsOf(w)) <= 3

\* a well holds four associations over exactly 3 chemical types
C2_Witness ==
    \E w \in WellIds :
        /\ Cardinality(ChemicalsOf(w)) = 3
        /\ Cardinality({j \in 1..Len(associations) : associations[j].wellId = w}) >= 4

\* C7 as claimed: for a well with k <= 3 distinct chemical types, a create with a
\* type not yet on the well is rejected with TooManyChemicals and a create with
\* a type already on the well is accepted.
C7_Original ==
    \A w \in WellIds, t \in TankIds, p \in PumpIds :
        Cardinality(ChemicalsOf(w)) <= 3 =>
            validateAssociationCreation(w, t, p) =
                IF chemicalTypeOf(t) \in ChemicalsOf(w) THEN Null ELSE TooManyChemicals

\* C7 amended: for a well with exactly 3 distinct chemical types a create with a
\* 4th type is rejected with TooManyChemicals; for a well with k <= 3 types a
\* create with a type already on the well is accepted.
C7_CapAtThree ==
    \A w \in WellIds :
        LET onWell == ChemicalsOf(w)
        IN  \A t \in TankIds :
                LET present == chemicalTypeOf(t) \in onWell
                IN  \A p \in PumpIds :
                        /\ (Cardinality(onWell) = 3 /\ ~present)
                               => validateAssociationCreation(w, t, p) = TooManyChemicals
                        /\ (Cardinality(onWell) <= 3 /\ present)
                               => validateAssociationCreation(w, t, p) = Null

\* the form holds a well with 3 chemical types and a tank of a 4th, and the
\* create was rejected with TooManyChemicals
C7_Witness ==
    /\ error = TooManyChemicals
    /\ selectedWell \in WellIds /\ selectedTank \in TankIds
    /\ Cardinality(ChemicalsOf(selectedWell)) = 3
    /\ chemicalTypeOf(selectedTank) \notin ChemicalsOf(selectedWell)

\* C8: for a resolving well and tank and a non-empty pumpId the result is
\* TooManyChemicals exactly when the well's chemical types (any status) and the
\* candidate's have more than 3 distinct values, and Accepted otherwise; a
\* well that would hold both "Product A" and "Product C" is not a reason.
C8_RejectedExactlyOverCap ==
    \A w \in WellIds :
        LET onWell == ChemicalsOf(w)
        IN  \A t \in TankIds :
                LET expected == IF Cardinality(onWell \cup {chemicalTypeOf(t)}) > 3
                                THEN TooManyChemicals
                                ELSE Null
                IN  \A p \in PumpIds :
                        validateAssociationCreation(w, t, p) = expected

\* a create was accepted on a well that now holds "Product A" and "Product C"
C8_Witness ==
    \E j \in 1..Len(associations) :
        /\ associations[j].id \notin {"A1", "A2"}
        /\ chemicalTypeOf(associations[j].tankId) = "Product C"
        /\ {"Product A", "Product C"} \subseteq ChemicalsOf(associations[j].wellId)

AssocIds == {associations[k].id : k \in 1..Len(associations)}

\* C3: a step that adds an association appends exactly one association, with
\* status INACTIVE, whatever the selections and whatever the store held,
\* and leaves the associations already there (ACTIVE ones too) as they were.
C3_CreatedInactive ==
    [][Len(associations') > Len(associations) =>
          /\ Len(associations') = Len(associations) + 1
          /\ associations'[Len(associations')].status = "INACTIVE"
          /\ SubSeq(associations', 1, Len(associations)) = associations]_vars

\* an association was created on a well whose seeded association is ACTIVE, and
\* it is INACTIVE
C3_Witness ==
    /\ created = 1
    /\ Len(associations) = 3
    /\ associations[2].id = "A2" /\ associations[2].status = "ACTIVE"
    /\ associations[3].wellId = associations[2].wellId
    /\ associations[3].status = "INACTIVE"

\* C4 as claimed: a rejected create and a rejected toggle leave products, tanks,
\* pumps, wells and associations equal to what they were, and the screen's error
\* holds the reason of the failing check.
C4_RejectionKeepsStoreAndReportsReason ==
    [][/\ \A w \in WellIds, t \in TankIds, p \in PumpIds :
              (/\ AssociationScreenMounted
               /\ validateAssociationCreation(w, t, p) # Null
               /\ associate(w, t, p))
                  => /\ UNCHANGED storeVars
                     /\ error' = validateAssociationCreation(w, t, p)
       /\ \A id \in AssocIds, i \in 1..Len(associations) :
              (/\ associations[i].id = id
               /\ associations[i].status = "INACTIVE"
               /\ validateToggleStatus(associations[i]) # Null
               /\ toggleStatus(id))
                  => /\ UNCHANGED storeVars
                     /\ error' = validateToggleStatus(associations[i])]_vars

\* the ACTIVE associations of association i's well, other than i itself
OtherActive(i) ==
    {j \in 1..Len(associations) :
        /\ j # i
        /\ associations[j].wellId = associations[i].wellId
        /\ associations[j].status = "ACTIVE"}

\* activating association i would have "Product A" and "Product C" run on its well
Conflict(i) ==
    {"Product A", "Product C"} \subseteq
        ({chemicalTypeOf(associations[j].tankId) : j \in OtherActive(i)}
            \cup {chemicalTypeOf(associations[i].tankId)})

\* C5 as claimed: toggling an INACTIVE association whose tank resolves is rejected
\* with IncompatibleChemicals, and stays INACTIVE, exactly when its chemical and
\* those of the other ACTIVE associations of its well hold both "Product A" and
\* "Product C"; otherwise it becomes ACTIVE.
C5_RejectedExactlyOnConflict ==
    [][\A id \in AssocIds, i \in 1..Len(associations) :
          (/\ associations[i].id = id
           /\ associations[i].status = "INACTIVE"
           /\ findTank(associations[i].tankId) # Undefined
           /\ toggleStatus(id))
              => IF Conflict(i)
                 THEN /\ validateToggleStatus(associations[i]) = IncompatibleChemicals
                      /\ associations'[i].status = "INACTIVE"
                 ELSE /\ validateToggleStatus(associations[i]) = Null
                      /\ associations'[i].status = "ACTIVE"]_vars

\* C6: toggling an ACTIVE association sets it to INACTIVE and the rule check
\* returns no rejection for it, whatever else is ACTIVE on its well.
C6_DeactivationSucceeds ==
    [][\A id \in AssocIds, i \in 1..Len(associations) :
          (/\ associations[i].id = id
           /\ associations[i].status = "ACTIVE"
           /\ toggleStatus(id))
              => /\ validateToggleStatus(associations[i]) = Null
                 /\ associations'[i].status = "INACTIVE"
                 /\ error' = Null]_vars

\* the seeded ACTIVE association A1 was stopped
C6_Witness ==
    \E i \in 1..Len(associations) :
        associations[i].id = "A1" /\ associations[i].status = "INACTIVE"

\* C9: a create that uses the pump of an association on another well, with a
\* resolving well and tank and within the chemical cap, is accepted: the new
\* association is appended and the one sharing its pump is still there.
C9_PumpSharing ==
    [][AssociationScreenMounted =>
          \A w \in WellIds :
              LET onWell == ChemicalsOf(w)
                  onOtherWells ==
                      {associations[j].pumpId :
                          j \in {k \in 1..Len(associations) : associations[k].wellId # w}}
              IN  \A p \in PumpIds \cap onOtherWells, t \in TankIds :
                      (/\ Cardinality(onWell \cup {chemicalTypeOf(t)}) <= 3
                       /\ associate(w, t, p))
                          => associations' = Append(associations, newAssoc(w, t, p))]_vars

\* the last two associations were created one after the other with the same
\* pump on two different wells
C9_Witness ==
    /\ created = 2
    /\ Len(associations) >= 2
    /\ LET a == associations[Len(associations) - 1]
           b == associations[Len(associations)]
       IN  /\ a.id \notin {"A1", "A2"} /\ b.id \notin {"A1", "A2"}
           /\ a.pumpId = b.pumpId
           /\ a.wellId # b.wellId

\* the arguments a caller may hand to validateAssociationCreation: the ids in
\* the store, an id of no well, an id of no tank, the empty string and two
\* whitespace-only strings
UnknownWellId == "W9"
UnknownTankId == "T9"
BlankPumpIds == {" ", "  "}
ArgWellIds == WellIds \cup {UnknownWellId}
ArgTankIds == TankIds \cup {UnknownTankId}
ArgPumpIds == PumpIds \cup {""} \cup BlankPumpIds

\* C10: validateAssociationCreation returns InvalidSelection whenever the wellId
\* resolves to no well, or the tankId resolves to no tank, or the pumpId is the
\* empty string or a whitespace-only string, also when the well's chemical
\* types and the candidate's exceed the cap.
C10_InvalidSelection ==
    \A w \in ArgWellIds, t \in ArgTankIds, p \in ArgPumpIds :
        (w \notin WellIds \/ t \notin TankIds \/ p = "" \/ p \in BlankPumpIds)
            => validateAssociationCreation(w, t, p) = InvalidSelection

\* the index in the list of the k-th association whose id is not id
KeptIndex(id, k) ==
    CHOOSE i \in 1..Len(associations) :
        /\ associations[i].id # id
        /\ Cardinality({j \in 1..i : associations[j].id # id}) = k

\* C11: removing an association, ACTIVE or INACTIVE, is never rejected:
\* afterwards no association has the id, and the others are all there,
\* unchanged and in the order they had.
C11_RemoveUnconditional ==
    [][\A id \in AssocIds :
          handleRemoveAssoc(id) =>
              /\ error' = Null
              /\ \A k \in 1..Len(associations') : associations'[k].id # id
              /\ Len(associations') =
                     Cardinality({j \in 1..Len(associations) : associations[j].id # id})
              /\ \A k \in 1..Len(associations') :
                     associations'[k] = associations[KeptIndex(id, k)]]_vars

\* the seeded ACTIVE association A1 was removed and the seeded A2, behind it in
\* the list, is still there
C11_Witness ==
    /\ \A i \in 1..Len(associations) : associations[i].id # "A1"
    /\ Len(associations) >= 1 /\ associations[1].id = "A2"

\* an INACTIVE association of well w, with the id given, whose tank is no tank
\* of the store
Dangling(id, w) ==
    [id |-> id, wellId |-> w, tankId |-> UnknownTankId, pumpId |-> "PM1",
     targetPpm |-> DefaultPpm, status |-> "INACTIVE"]

\* C12: for an INACTIVE association whose tankId resolves to no tank the rule
\* check returns TankNotFound and the toggle leaves it INACTIVE, whatever is
\* ACTIVE on its well.
C12_TankNotFoundFirst ==
    \A w \in WellIds, id \in AssocIds \cup {"A0"} :
        /\ validateToggleStatus(Dangling(id, w)) = TankNotFound
        /\ toggled(Dangling(id, w)) = Dangling(id, w)

\* "Product A" and "Product C" are both ACTIVE on a well, and the check of an
\* association without a tank on that well returns TankNotFound
C12_Witness ==
    \E w \in WellIds :
        /\ {"Product A", "Product C"} \subseteq ActiveChemicalsOf(w)
        /\ validateToggleStatus(Dangling("A0", w)) = TankNotFound

\* C13: every change of the association list is one operation applied to the
\* list as it was just before: a create appends one association to it, a
\* remove takes the associations of one id out of it, a toggle replaces the
\* associations of one id by what the rule check, read on that same list,
\* makes of them; nothing committed before is lost.
C13_CommitOnCurrent ==
    [][associations' # associations =>
          \/ /\ Len(associations') = Len(associations) + 1
             /\ SubSeq(associations', 1, Len(associations)) = associations
          \/ \E id \in AssocIds :
                 /\ Len(associations') =
                        Cardinality({j \in 1..Len(associations) :
                                        associations[j].id # id})
                 /\ \A k \in 1..Len(associations') :
                        associations'[k] = associations[KeptIndex(id, k)]
          \/ \E id \in AssocIds :
                 /\ Len(associations') = Len(associations)
                 /\ \A i \in 1..Len(associations) :
                        associations'[i] =
                            IF associations[i].id = id
                            THEN toggled(associations[i])
                            ELSE associations[i]]_vars

\* a create, a toggle and a remove were committed one after another and each
\* one's effect is in the list: A1 is gone, A2 runs, the new association is there
C13_Witness ==
    /\ created = 1
    /\ Len(associations) = 2
    /\ associations[1].id = "A2" /\ associations[1].status = "ACTIVE"
    /\ associations[2].id \notin {"A1", "A2"}

\* a failure of the advisory boundary: no credential, or the request threw
FailedCalls == {"noKey", "error"}

\* C14 as claimed: every call ends with a text, and after a call that failed
\* the text shown is the one fallback string every failure of the boundary is
\* mapped to.
C14_Original ==
    /\ (lastCall # "none" /\ ~pending) => (~loadingInsights /\ insights # "")
    /\ lastCall \in FailedCalls =>
           \A hasKey \in BOOLEAN, response \in ApiResponses :
               KindOf(hasKey, response) \in FailedCalls =>
                   getSystemInsights(hasKey, response).value = insights

\* C14 amended: every call ends with a text, and a failure is mapped to the
\* fixed string of its kind: a missing credential to InsightsUnavailable, an
\* error of the request to ErrorGeneratingInsights.
C14_FallbackPerFailure ==
    /\ (lastCall # "none" /\ ~pending) => (~loadingInsights /\ insights # "")
    /\ lastCall = "noKey" => insights = InsightsUnavailable
    /\ lastCall = "error" => insights = ErrorGeneratingInsights

\* a request threw and the dashboard shows the error's fallback text
C14_Witness ==
    /\ lastCall = "error"
    /\ ~pending /\ ~loadingInsights
    /\ insights = ErrorGeneratingInsights

\* C15: in every reachable state no two associations of the list share an id
\* (so a toggle or a remove of an id concerns at most one association).
C15_UniqueAssociationIds ==
    \A i, j \in 1..Len(associations) :
        i # j => associations[i].id # associations[j].id

\* an id no association has
AbsentId == "A0"

\* the fields of an association a toggle is not to touch
Identity(a) ==
    [id |-> a.id, wellId |-> a.wellId, tankId |-> a.tankId,
     pumpId |-> a.pumpId, targetPpm |-> a.targetPpm]

\* C16: a toggle keeps the list's length and order, changes nothing but the
\* status (to ACTIVE or INACTIVE) of the associations with the id given and
\* leaves the others as they are; no step changes the id, wellId, tankId, pumpId
\* or targetPpm of an association; the updater run on an id no association has
\* returns the list unchanged.
C16_OnlyStatusChanges ==
    [][/\ \A id \in AssocIds :
              toggleStatus(id) =>
                  /\ Len(associations') = Len(associations)
                  /\ \A i \in 1..Len(associations) :
                         /\ Identity(associations'[i]) = Identity(associations[i])
                         /\ associations'[i].status \in {"ACTIVE", "INACTIVE"}
                         /\ associations[i].id # id =>
                                associations'[i] = associations[i]
       /\ \A k \in 1..Len(associations') :
              \/ \E i \in 1..Len(associations) :
                     Identity(associations'[k]) = Identity(associations[i])
              \/ k = Len(associations') /\ Len(associations') = Len(associations) + 1
       /\ statusToggled(AbsentId) = associations]_vars

\* the seeded A2 was started and is otherwise what it was
C16_Witness ==
    \E i \in 1..Len(associations) :
        associations[i] = [INITIAL_ASSOCS[2] EXCEPT !.status = "ACTIVE"]

\* C17: every association of the list has a targetPpm above 0.
C17_PositivePpm ==
    \A i \in 1..Len(associations) : associations[i].targetPpm > 0

\* an association was created with a target ppm typed into the form
C17_Witness ==
    \E i \in 1..Len(associations) :
        /\ associations[i].id \notin {"A1", "A2"}
        /\ associations[i].targetPpm # DefaultPpm

ActiveOf(w) ==
    {i \in 1..Len(associations) :
        associations[i].wellId = w /\ associations[i].status = "ACTIVE"}

\* the sum of targetPpm over the associations at the indices in S
RECURSIVE SumPpm(_)
SumPpm(S) ==
    IF S = {} THEN 0
    ELSE LET i == CHOOSE j \in S : TRUE
         IN  associations[i].targetPpm + SumPpm(S \ {i})

\* C18 as claimed: each well's chart value is productionRate times the sum of
\* targetPpm over that well's ACTIVE associations, divided by 10000 (the chart
\* value is in hundredths: times 100 it is the product).
C18_Original ==
    \A k \in 1..Len(wells) :
        consumptionData[k].consumption * 100 =
            wells[k].productionRate * SumPpm(ActiveOf(wells[k].id))

\* C18 amended: each well's chart value is that quotient rounded to two
\* decimals: it is within half a hundredth of it, and 0 for a well without an
\* ACTIVE association.
C18_RoundedConsumption ==
    \A k \in 1..Len(wells) :
        LET exact == wells[k].productionRate * SumPpm(ActiveOf(wells[k].id))
            shown == consumptionData[k].consumption * 100
        IN  /\ shown - exact <= 50 /\ exact - shown <= 50
            /\ ActiveOf(wells[k].id) = {} => consumptionData[k].consumption = 0

\* the registered well of 333 bpd runs one association of 7 ppm, and the chart
\* shows 0.23 for 0.2331
C18_Witness ==
    \E k \in 1..Len(wells) :
        /\ wells[k].productionRate = 333
        /\ SumPpm(ActiveOf(wells[k].id)) = 7
        /\ consumptionData[k].consumption = 23

\* C20: no step taken while the user is a FIELD_TECH changes products, tanks,
\* pumps or wells, and every step that changes one of them is taken by a SALES
\* user.
C20_RegistrationOnlySales ==
    [][/\ user = "FIELD_TECH" => UNCHANGED <<products, tanks, pumps, wells>>
       /\ <<products, tanks, pumps, wells>>' # <<products, tanks, pumps, wells>>
              => user = "SALES"]_vars

\* a FIELD_TECH is logged in on a registration tab, which a SALES user left
\* open at logout after registering a tank
C20_Witness ==
    /\ user = "FIELD_TECH"
    /\ activeTab \in {"tanks", "wells", "products"}
    /\ Len(tanks) > Len(INITIAL_TANKS)

\* C21: a toggle that changes the list, followed at once by a toggle of the
\* same id, gives back the list as it was before the first: the second is
\* accepted for every association the first changed.
C21_DoubleToggleRestores ==
    [][\A id \in AssocIds :
          (associations' # associations /\ toggleStatus(id))
              => statusToggled(id)' = associations]_vars

====
